---------------------------- MODULE Spec2Model ----------------------------
(***************************************************************************)
(* A model of beansoup.importers.csv: the function sort_rows, which        *)
(* reorders the rows of a statement so that their running balances agree,  *)
(* and Importer.extract, which turns the reordered rows into transactions  *)
(* and balance directives.                                                 *)
(*                                                                         *)
(* A row is a record [lineno, date, amount, balance]; the description of a *)
(* row is carried through unchanged by the code and takes part in no       *)
(* decision, so it is left out.  Dates are day numbers.  Decimal amounts   *)
(* are integers (the code compares them with exact equality).              *)
(***************************************************************************)
EXTENDS Integers, Sequences, FiniteSets

\* ------------------------------------------------------------------ bounds
\* The longest statement, in rows.
MaxRows == 3
\* The dates of a statement are the days 1..MaxDate.
MaxDate == 4
\* The dates of a list of rows in no order are the days 1..MaxAnyDate.
MaxAnyDate == 3
\* The values an amount and a balance may take.
Amounts == {-1, 1}
Balances == {-1, 0, 1}

\* Python's None, as an error_lineno and as a first_day: no line number and
\* no day of the month is negative.
None == -1

\* The length, in days, of a billing period (a month, scaled down).
PeriodLen == 2

VARIABLES
    rows,             \* sort_rows: the argument
    first_day,        \* Importer.first_day
    pc,               \* the position in extract / sort_rows
    opening_balances, \* sort_rows: the candidate opening balances
    cand,             \* sort_rows: the index of the for loop in opening_balances
    stack,            \* sort_rows: the rows still to place (top at the end)
    prev_balance,
    unbalanced_rows,
    balanced_rows,
    error_lineno,
    sorted_rows,      \* what sort_rows returned: the rows ...
    sorted_error,     \* ... and the error
    new_entries,      \* extract: the entries returned
    warnings,         \* extract: the line numbers logged by logging.warning
    pass              \* 1: sort_rows on the parsed rows; 2: on its own output

vars == <<rows, first_day, pc, opening_balances, cand, stack, prev_balance,
          unbalanced_rows, balanced_rows, error_lineno, sorted_rows,
          sorted_error, new_entries, warnings, pass>>

sortLocals == <<opening_balances, cand, stack, prev_balance, unbalanced_rows,
                balanced_rows, error_lineno>>

\* ------------------------------------------------------------------ helpers
Reverse(s) == [i \in 1..Len(s) |-> s[Len(s) + 1 - i]]

Last(s) == s[Len(s)]

Front(s) == SubSeq(s, 1, Len(s) - 1)

DateAscending(s) == \A i \in 1..(Len(s) - 1) : s[i].date <= s[i + 1].date

\* The (date, amount, balance) of a statement line, dated up to the day last.
RowData(last) == [date : 1..last, amount : Amounts, balance : Balances]

\* The rows a parser makes of the lines f: each carries the number of its line.
Statement(f) ==
    [i \in 1..Len(f) |-> [lineno |-> i, date |-> f[i].date,
                          amount |-> f[i].amount, balance |-> f[i].balance]]

\* ------------------------------------------------------------------ sort_rows
\* itertools.takewhile(lambda r: r.date == first_date, rows): the length of
\* the longest prefix of s whose rows carry the date d.
RECURSIVE TakeWhileLen(_, _, _)
TakeWhileLen(s, d, i) ==
    IF i <= Len(s) /\ s[i].date = d THEN TakeWhileLen(s, d, i + 1) ELSE i - 1

OpeningBalances(s) ==
    [i \in 1..TakeWhileLen(s, s[1].date, 1) |-> s[i].balance - s[i].amount]

\* A slip in the line below: the rows are not reversed, and are popped last
\* row first.
InitialStackNotReversed(s) == s
\* stack = list(reversed(rows))
InitialStack(s) == Reverse(s)

\* A slip in the line below: an inequality for the exact comparison.
BalancesWithAtLeast(prev, row) == prev + row.amount >= row.balance
\* prev_balance + row.amount == row.balance
BalancesWith(prev, row) == prev + row.amount = row.balance

\* A slip in the line below: the skipped row is not kept.
DeferredDropped(unb, row) == unb
\* unbalanced_rows.append(row)
Deferred(unb, row) == Append(unb, row)

\* A slip in the line below: "if balanced_rows:" for the comparison of lengths.
AllBalancedWhenSome(bal, s) == Len(bal) >= 1
\* len(balanced_rows) == len(rows)
AllBalanced(bal, s) == Len(bal) = Len(s)

\* The rows returned when every opening balance has failed.
FailureRows(s, bal) == s

\* if len(rows) <= 1: return rows, None
SortTrivial ==
    /\ pc = "sort_rows"
    /\ Len(rows) <= 1
    /\ sorted_rows' = rows
    /\ sorted_error' = None
    /\ pc' = "sorted"
    /\ UNCHANGED <<rows, first_day, sortLocals, new_entries, warnings, pass>>

\* first_date, opening_balances, error_lineno = 0, and the for loop is entered
SortBegin ==
    /\ pc = "sort_rows"
    /\ Len(rows) > 1
    /\ opening_balances' = OpeningBalances(rows)
    /\ error_lineno' = 0
    /\ cand' = 1
    /\ pc' = "for"
    /\ UNCHANGED <<rows, first_day, stack, prev_balance, unbalanced_rows,
                   balanced_rows, sorted_rows, sorted_error, new_entries,
                   warnings, pass>>

\* for opening_balance in opening_balances: the set-up of one attempt
NextCandidate ==
    /\ pc = "for"
    /\ cand <= Len(opening_balances)
    /\ stack' = InitialStack(rows)
    /\ prev_balance' = opening_balances[cand]
    /\ unbalanced_rows' = <<>>
    /\ balanced_rows' = <<>>
    /\ pc' = "while"
    /\ UNCHANGED <<rows, first_day, opening_balances, cand, error_lineno,
                   sorted_rows, sorted_error, new_entries, warnings, pass>>

\* row = stack.pop(), and the row balances with the previous one
Accept ==
    /\ pc = "while"
    /\ stack # <<>>
    /\ LET row == Last(stack) IN
        /\ BalancesWith(prev_balance, row)
        /\ balanced_rows' = Append(balanced_rows, row)
        /\ prev_balance' = row.balance
        \* stack.extend(unbalanced_rows); unbalanced_rows.clear()
        /\ stack' = Front(stack) \o unbalanced_rows
        /\ unbalanced_rows' = <<>>
    /\ UNCHANGED <<rows, first_day, pc, opening_balances, cand, error_lineno,
                   sorted_rows, sorted_error, new_entries, warnings, pass>>

\* row = stack.pop(), the row does not balance and is skipped for the time being
Defer ==
    /\ pc = "while"
    /\ stack # <<>>
    /\ LET row == Last(stack) IN
        /\ ~BalancesWith(prev_balance, row)
        /\ ~(unbalanced_rows # <<>> /\ unbalanced_rows[1].date # row.date)
        /\ unbalanced_rows' = Deferred(unbalanced_rows, row)
        /\ stack' = Front(stack)
    /\ UNCHANGED <<rows, first_day, pc, opening_balances, cand, prev_balance,
                   balanced_rows, error_lineno, sorted_rows, sorted_error,
                   new_entries, warnings, pass>>

\* row = stack.pop(), the row does not balance and neither does a skipped row
\* of another date: break
Cutoff ==
    /\ pc = "while"
    /\ stack # <<>>
    /\ LET row == Last(stack) IN
        /\ ~BalancesWith(prev_balance, row)
        /\ unbalanced_rows # <<>> /\ unbalanced_rows[1].date # row.date
        /\ stack' = Front(stack)
    /\ pc' = "attempted"
    /\ UNCHANGED <<rows, first_day, opening_balances, cand, prev_balance,
                   unbalanced_rows, balanced_rows, error_lineno, sorted_rows,
                   sorted_error, new_entries, warnings, pass>>

\* while stack: the stack is empty
Exhausted ==
    /\ pc = "while"
    /\ stack = <<>>
    /\ pc' = "attempted"
    /\ UNCHANGED <<rows, first_day, sortLocals, sorted_rows, sorted_error,
                   new_entries, warnings, pass>>

\* if len(balanced_rows) == len(rows): return balanced_rows, None
ReturnBalanced ==
    /\ pc = "attempted"
    /\ AllBalanced(balanced_rows, rows)
    /\ sorted_rows' = balanced_rows
    /\ sorted_error' = None
    /\ pc' = "sorted"
    /\ UNCHANGED <<rows, first_day, sortLocals, new_entries, warnings, pass>>

\* error_lineno = unbalanced_rows[0].lineno, which raises IndexError on an
\* empty list; then the next opening balance
CandidateFailed ==
    /\ pc = "attempted"
    /\ ~AllBalanced(balanced_rows, rows)
    /\ IF unbalanced_rows = <<>>
       THEN /\ pc' = "raised"
            /\ UNCHANGED <<error_lineno, cand>>
       ELSE /\ error_lineno' = unbalanced_rows[1].lineno
            /\ cand' = cand + 1
            /\ pc' = "for"
    /\ UNCHANGED <<rows, first_day, opening_balances, stack, prev_balance,
                   unbalanced_rows, balanced_rows, sorted_rows, sorted_error,
                   new_entries, warnings, pass>>

\* The for loop is over: return rows, error_lineno
ReturnUnsorted ==
    /\ pc = "for"
    /\ cand > Len(opening_balances)
    /\ sorted_rows' = FailureRows(rows, balanced_rows)
    /\ sorted_error' = error_lineno
    /\ pc' = "sorted"
    /\ UNCHANGED <<rows, first_day, sortLocals, new_entries, warnings, pass>>

\* ------------------------------------------------------------------ periods
\* beansoup.utils.periods, with a period of PeriodLen days that starts on the
\* days congruent to first_day: the start of the period that holds the date,
\* and the same day one period later and earlier.
GreatestStart(date, fd) == date - ((date - fd) % PeriodLen)

NextPeriod(date) == date + PeriodLen

PrevPeriod(date) == date - PeriodLen

\* ------------------------------------------------------------------ extract
\* data.Transaction(data.new_metadata(file.name, index), row.date, ...) with
\* the one posting of row.amount
Transaction(index, row) ==
    [kind |-> "transaction", date |-> row.date, amount |-> row.amount,
     lineno |-> index]

\* for index, row in enumerate(rows): new_entries.append(entry)
Transactions(rs) == [i \in 1..Len(rs) |-> Transaction(i - 1, rs[i])]

\* create_balance_entry(filename, date, balance)
BalanceEntry(date, balance) ==
    [kind |-> "balance", date |-> date, amount |-> balance, lineno |-> 0]

\* A slip in the line below: the balance entry is dated on the day of the last
\* transaction.
SingleBalanceSameDay(rs) == <<BalanceEntry(Last(rs).date, Last(rs).balance)>>
\* The single balance entry on the day following the last transaction.
SingleBalance(rs) == <<BalanceEntry(Last(rs).date + 1, Last(rs).balance)>>

\* for row in reversed(rows): the rows rs[i], ..., rs[1] are still to visit
RECURSIVE MonthlyBalances(_, _, _)
MonthlyBalances(rs, i, balance_date) ==
    IF i = 0 THEN <<>>
    ELSE IF rs[i].date < balance_date
         THEN <<BalanceEntry(balance_date, rs[i].balance)>>
              \o MonthlyBalances(rs, i - 1, PrevPeriod(balance_date))
         ELSE MonthlyBalances(rs, i - 1, balance_date)

\* A slip in the definition below: the error of sort_rows is not looked at.
BalanceEntriesUntrusted(rs, error, fd) ==
    IF fd = None THEN SingleBalance(rs)
    ELSE MonthlyBalances(rs, Len(rs), NextPeriod(GreatestStart(Last(rs).date, fd)))
\* "Extract balance, but only if we can trust it": the entries appended after
\* the transactions
BalanceEntries(rs, error, fd) ==
    IF error # None THEN <<>>
    ELSE IF fd = None THEN SingleBalance(rs)
    ELSE MonthlyBalances(rs, Len(rs), NextPeriod(GreatestStart(Last(rs).date, fd)))

\* logging.warning('{}:{}: cannot reorder rows ...'.format(file.name, error_lineno))
Warnings(error) == IF error # None THEN <<error>> ELSE <<>>

\* extract, from the return of sort_rows to its own
Extract ==
    /\ pc = "sorted"
    /\ IF Len(sorted_rows) = 0
       THEN /\ new_entries' = <<>>
            /\ warnings' = <<>>
       ELSE /\ new_entries' = Transactions(sorted_rows)
                              \o BalanceEntries(sorted_rows, sorted_error, first_day)
            /\ warnings' = Warnings(sorted_error)
    /\ pc' = "done"
    /\ UNCHANGED <<rows, first_day, sortLocals, sorted_rows, sorted_error, pass>>

\* sort_rows is called again, on the rows it returned as sorted
Resort ==
    /\ pc = "done"
    /\ pass = 1
    /\ sorted_error = None
    /\ rows' = sorted_rows
    /\ pass' = 2
    /\ pc' = "sort_rows"
    /\ opening_balances' = <<>>
    /\ cand' = 0
    /\ stack' = <<>>
    /\ prev_balance' = 0
    /\ unbalanced_rows' = <<>>
    /\ balanced_rows' = <<>>
    /\ error_lineno' = 0
    /\ sorted_rows' = <<>>
    /\ sorted_error' = None
    /\ new_entries' = <<>>
    /\ warnings' = <<>>
    /\ UNCHANGED first_day

\* ------------------------------------------------------------------ specification
\* The locals of sort_rows and the results of extract, before the call.
Entered ==
    /\ pc = "sort_rows"
    /\ opening_balances = <<>>
    /\ cand = 0
    /\ stack = <<>>
    /\ prev_balance = 0
    /\ unbalanced_rows = <<>>
    /\ balanced_rows = <<>>
    /\ error_lineno = 0
    /\ sorted_rows = <<>>
    /\ sorted_error = None
    /\ new_entries = <<>>
    /\ warnings = <<>>
    /\ pass = 1

\* extract is entered with the parsed rows of a statement: sorted by date, in
\* any order within a date.
Parsed ==
    /\ \E n \in 0..MaxRows : \E f \in [1..n -> RowData(MaxDate)] :
          /\ DateAscending(f)
          /\ rows = Statement(f)
    /\ Entered

\* An importer constructed with any first_day.
Init ==
    /\ first_day \in {None} \cup (1..PeriodLen)
    /\ Parsed

\* An importer constructed with the default first_day.
InitUnanchored ==
    /\ first_day = None
    /\ Parsed

\* The default importer, with a parser that hands over the rows in any order
\* of dates.
InitAnyOrder ==
    /\ first_day = None
    /\ \E n \in 0..MaxRows : \E f \in [1..n -> RowData(MaxAnyDate)] :
          rows = Statement(f)
    /\ Entered

Next ==
    \/ SortTrivial
    \/ SortBegin
    \/ NextCandidate
    \/ Accept
    \/ Defer
    \/ Cutoff
    \/ Exhausted
    \/ ReturnBalanced
    \/ CandidateFailed
    \/ ReturnUnsorted
    \/ Extract
    \/ Resort

Spec == Init /\ [][Next]_vars

\* Nothing but the interpreter runs the code: a step that can be taken is
\* taken.  sort_rows never reads first_day, so its runs are those of the
\* default importer.
FairSpec == InitUnanchored /\ [][Next]_vars /\ WF_vars(Next)

\* sort_rows on rows in any order of dates.
AnyOrderSpec == InitAnyOrder /\ [][Next]_vars

\* ------------------------------------------------------------------ properties
\* sort_rows has returned.
Returned == pc \in {"sorted", "done"}

\* Each row's balance is the balance of the row before it plus its amount.
BalanceConsistent(s) ==
    \A i \in 2..Len(s) : s[i - 1].balance + s[i].amount = s[i].balance

Range(s) == {s[i] : i \in 1..Len(s)}

Count(s, r) == Cardinality({i \in 1..Len(s) : s[i] = r})

\* The two sequences hold the same rows, each as often.
SameRows(a, b) == \A r \in Range(a) \cup Range(b) : Count(a, r) = Count(b, r)

Permutations(n) ==
    {p \in [1..n -> 1..n] : \A i, j \in 1..n : p[i] = p[j] => i = j}

EarliestDate(s) == CHOOSE d \in {s[i].date : i \in 1..Len(s)} :
                       \A i \in 1..Len(s) : d <= s[i].date

\* C1: when sort_rows returns no error on two or more rows, the returned
\* sequence is balance-consistent, and the balance before its first row is a
\* candidate opening balance: balance - amount of an input row of the
\* earliest date.
C1_BalanceConsistency ==
    (Returned /\ sorted_error = None /\ Len(rows) >= 2) =>
        /\ BalanceConsistent(sorted_rows)
        /\ \E i \in 1..Len(rows) :
              /\ rows[i].date = EarliestDate(rows)
              /\ sorted_rows[1].balance - sorted_rows[1].amount
                   = rows[i].balance - rows[i].amount

\* C1 witness: a statement of three rows that sort_rows had to reorder.
C1_Witness ==
    /\ Returned /\ pass = 1
    /\ sorted_error = None
    /\ Len(rows) = 3
    /\ sorted_rows # rows

\* C2: on success and on failure, the rows sort_rows returns are a
\* permutation of its input: the same rows, each as often.
C2_Permutation == Returned => SameRows(sorted_rows, rows)

\* C2 witness: on rows not sorted by date, sort_rows succeeded by moving the
\* first of three rows to the end: it was deferred, pushed back after the
\* second row, deferred again and pushed back after the third.
C2_Witness ==
    /\ Returned /\ pass = 1
    /\ ~DateAscending(rows)
    /\ sorted_error = None
    /\ Len(rows) = 3
    /\ sorted_rows = <<rows[2], rows[3], rows[1]>>

\* C3: when sort_rows returns no error on a date-ascending input, the dates
\* of the returned rows are non-decreasing.
C3_Chronological ==
    (Returned /\ sorted_error = None /\ DateAscending(rows)) =>
        DateAscending(sorted_rows)

\* C4: on a date-ascending input of which some date-non-decreasing
\* permutation is balance-consistent, sort_rows returns no error.
C4_Complete ==
    (Returned /\ DateAscending(rows)
       /\ \E p \in Permutations(Len(rows)) :
             LET s == [i \in 1..Len(rows) |-> rows[p[i]]] IN
             DateAscending(s) /\ BalanceConsistent(s)) =>
        sorted_error = None

\* The first row, in input order, that the attempt now over did not accept.
FirstUnaccepted ==
    CHOOSE i \in 1..Len(rows) :
        /\ rows[i] \notin Range(balanced_rows)
        /\ \A j \in 1..(i - 1) : rows[j] \in Range(balanced_rows)

\* C5: when every opening balance fails, sort_rows returns the input rows in
\* their order, with the line number of the earliest row in input order that
\* the attempt with the last opening balance left unaccepted.
C5_FailureLine ==
    (Returned /\ sorted_error # None) =>
        /\ sorted_rows = rows
        /\ sorted_error = rows[FirstUnaccepted].lineno

\* The balance entries among the entries extracted.
BalanceIndices == {k \in 1..Len(new_entries) : new_entries[k].kind = "balance"}

\* A day on which a billing period starts.
IsBoundary(date) == (date - first_day) % PeriodLen = 0

\* The rows returned by sort_rows that are dated before the date.
RowsBefore(date) == {i \in 1..Len(sorted_rows) : sorted_rows[i].date < date}

\* C6: in periodic mode after a successful reconciliation, every balance
\* entry is dated at a period boundary and asserts the balance of the last
\* row of the sequence dated before the boundary, with at most one entry per
\* boundary.
C6_PeriodicBalances ==
    (pc = "done" /\ first_day # None /\ sorted_error = None) =>
        /\ \A k \in BalanceIndices :
              LET e == new_entries[k] IN
              /\ IsBoundary(e.date)
              /\ RowsBefore(e.date) # {}
              /\ \E i \in RowsBefore(e.date) :
                    /\ \A j \in RowsBefore(e.date) : j <= i
                    /\ e.amount = sorted_rows[i].balance
        /\ \A k, l \in BalanceIndices :
              new_entries[k].date = new_entries[l].date => k = l

\* C7: when sort_rows reports a failure, extract returns one transaction per
\* returned row, in their order, numbered by position, no balance entry, and
\* logs one warning, with the failure line.
C7_FailureEntries ==
    (pc = "done" /\ sorted_error # None) =>
        /\ Len(new_entries) = Len(sorted_rows)
        /\ \A i \in 1..Len(sorted_rows) :
              new_entries[i] = [kind |-> "transaction",
                                date |-> sorted_rows[i].date,
                                amount |-> sorted_rows[i].amount,
                                lineno |-> i - 1]
        /\ warnings = <<sorted_error>>

\* C7 witness: a failed reconciliation of three rows, extracted in periodic
\* mode.
C7_Witness ==
    /\ pc = "done"
    /\ sorted_error # None
    /\ first_day # None
    /\ Len(new_entries) = 3

\* C8: in unanchored mode after a successful reconciliation of a non-empty
\* statement, extract returns the transactions followed by exactly one
\* balance entry, dated the day after the last returned row and asserting
\* that row's balance.
C8_SingleBalance ==
    (pc = "done" /\ first_day = None /\ sorted_error = None /\ Len(rows) >= 1) =>
        /\ Len(new_entries) = Len(sorted_rows) + 1
        /\ BalanceIndices = {Len(new_entries)}
        /\ new_entries[Len(new_entries)].date
             = sorted_rows[Len(sorted_rows)].date + 1
        /\ new_entries[Len(new_entries)].amount
             = sorted_rows[Len(sorted_rows)].balance

\* C8 witness: an unanchored extraction of three rows that sort_rows
\* reordered.
C8_Witness ==
    /\ pc = "done" /\ pass = 1
    /\ first_day = None
    /\ sorted_error = None
    /\ Len(rows) = 3
    /\ sorted_rows # rows

\* C9: on rows that are balance-consistent in their given order, sort_rows
\* returns the same rows in the same order and no error; so it does on the
\* rows a successful call returned.
C9_Idempotent ==
    (Returned /\ BalanceConsistent(rows)) =>
        (sorted_rows = rows /\ sorted_error = None)

\* C9 witness: sort_rows has returned from a call on the three rows that an
\* earlier call returned, reordered and no longer sorted by date.
C9_Witness ==
    /\ Returned /\ pass = 2
    /\ Len(rows) = 3
    /\ BalanceConsistent(rows)
    /\ ~DateAscending(rows)

\* C10: sort_rows (and extract with it) always returns: every call, the
\* first and the one on its own output, reaches the end of extract, and none
\* stops on the IndexError of reading the first of no deferred rows.
C10_Total == []<>(pc = "done")

\* C10 witness: sort_rows has returned a failure after reading the first
\* deferred row of three failed attempts.
C10_Witness ==
    /\ Returned
    /\ sorted_error # None
    /\ Len(opening_balances) = 3
    /\ cand = 4

==========================================================================
